---- MODULE Spec2Model ----
(***************************************************************************)
(* Model of the MADSci_Examples repository:                                *)
(*   - the detailed workflow lifecycle state diagram (README, older form), *)
(*   - the simplified workflow lifecycle state diagram (README),           *)
(*   - ExampleNodeWithAction.example_action of node_notebook.ipynb.        *)
(* A mermaid stateDiagram is data: a set of labelled transitions between   *)
(* state ids and a description for each state id.  A workflow walks the    *)
(* diagram: it sits on one state id and an event moves it along a          *)
(* transition that leaves this id and carries the event's label.           *)
(***************************************************************************)
EXTENDS Integers, Sequences, FiniteSets, TLC

VARIABLES
    dstate,   \* detailed diagram: state id the workflow is on
    dprev,    \* detailed diagram: state id before the last transition
    devent,   \* detailed diagram: label of the last transition
    sstate,   \* simplified diagram: state id the workflow is on
    sprev,    \* simplified diagram: state id before the last transition
    sevent,   \* simplified diagram: label of the last transition
    request,  \* node: arguments of the last example_action call
    result,   \* node: value returned by the last example_action call
    log,      \* node: messages written by self.logger.log
    pc,       \* experiment cell: statement about to run
    asset,    \* experiment cell: the asset returned by add_resource
    resources,     \* resource manager: assets held by each resource id
    inExperiment,  \* experiment cell: inside the manage_experiment block
    calls     \* experiment cell: client calls made so far, with outcome

dvars == <<dstate, dprev, devent>>
svars == <<sstate, sprev, sevent>>
nvars == <<request, result, log>>
evars == <<pc, asset, resources, inExperiment, calls>>
vars == <<dstate, dprev, devent, sstate, sprev, sevent, request, result, log,
          pc, asset, resources, inExperiment, calls>>

(***************************************************************************)
(* Bounds                                                                  *)
(***************************************************************************)
MaxArg == 2   \* arg2 ranges over -MaxArg..MaxArg
MaxLog == 2   \* number of example_action calls (log lines) explored
MaxOld == 2   \* assets a resource may hold before the cell runs

(***************************************************************************)
(* Mermaid state diagrams                                                  *)
(***************************************************************************)
\* "[*]" as the source of a transition is the start pseudo-state, as the
\* target of a transition it is the end pseudo-state.
StartState == "[*]"
EndState == "[*]end"
NoState == "none"
NoEvent == "none"

T(from, to, label) == [from |-> from, to |-> to, label |-> label]

DetailedTransitions ==
    { T(StartState,   "Queued",     "Workflow Submitted"),
      T("Queued",     "Running",    "Started First Step"),
      T("Queued",     "Failed",     "Problem starting First Step"),
      T("Running",    "InProgress", "Succeeded Non-Terminal Step"),
      T("InProgress", "Running",    "Started Next Step"),
      T("Queued",     "Cancelled",  "Cancelled by User"),
      T("Running",    "Cancelled",  "Cancelled by User"),
      T("Running",    "Completed",  "Succeeded Final Step"),
      T("Paused",     "Running",    "Resumed by User"),
      T("Running",    "Paused",     "Paused by User"),
      T("InProgress", "Paused",     "Paused by User"),
      T("InProgress", "Cancelled",  "Cancelled by User"),
      T("Failed",     "InProgress", "Retrying Step"),
      T("Failed",     "Queued",     "Resubmitted by User"),
      T("Cancelled",  "InProgress", "Retrying Step"),
      T("Cancelled",  "Queued",     "Resubmitted by User"),
      T("Completed",  "Queued",     "Resubmitted by User"),
      T("Queued",     "Paused",     "Paused by User"),
      T("Paused",     "Queued",     "Resumed by User") }

DetailedDescription ==
    [ Queued     |-> "queued",
      Running    |-> "running",
      Failed     |-> "failed",
      InProgress |-> "in_progress",
      Cancelled  |-> "cancelled",
      Completed  |-> "completed",
      Paused     |-> "paused" ]

\* Variants of the detailed diagram with one line changed.
DetailedDiagram_NoInProgressDescription ==
    [ transitions |-> DetailedTransitions,
      description |-> [ id \in DOMAIN DetailedDescription \ {"InProgress"} |->
                          DetailedDescription[id] ] ]

DetailedDiagram_ResubmitCompletedToRunning ==
    [ transitions |->
          (DetailedTransitions \ {T("Completed", "Queued", "Resubmitted by User")})
              \cup {T("Completed", "Running", "Resubmitted by User")},
      description |-> DetailedDescription ]

DetailedDiagram_InProgressToCompleted ==
    [ transitions |->
          DetailedTransitions \cup {T("InProgress", "Completed", "Succeeded Final Step")},
      description |-> DetailedDescription ]

DetailedDiagram_NoCancelInProgress ==
    [ transitions |->
          DetailedTransitions \ {T("InProgress", "Cancelled", "Cancelled by User")},
      description |-> DetailedDescription ]

DetailedDiagram_RetryToRunning ==
    [ transitions |->
          (DetailedTransitions \ {T("Failed", "InProgress", "Retrying Step")})
              \cup {T("Failed", "Running", "Retrying Step")},
      description |-> DetailedDescription ]

DetailedDiagram ==
    [ transitions |-> DetailedTransitions, description |-> DetailedDescription ]

SimplifiedTransitions ==
    { T(StartState,  "Queued",    "Workflow Submitted"),
      T("Queued",    "Running",   "Start Step"),
      T("Queued",    "Failed",    "Error starting Step"),
      T("Queued",    "Cancelled", "Cancelled"),
      T("Running",   "Cancelled", "Cancelled"),
      T("Running",   "Completed", "Succeeded Final Step"),
      T("Running",   "Failed",    "Error during Step"),
      T("Paused",    "Running",   "Resumed"),
      T("Running",   "Paused",    "Paused"),
      T("Failed",    "Queued",    "Resubmitted/Retried"),
      T("Cancelled", "Queued",    "Resubmitted/Retried"),
      T("Queued",    "Paused",    "Paused"),
      T("Paused",    "Queued",    "Resumed"),
      T("Completed", EndState,    ""),
      T("Cancelled", EndState,    ""),
      T("Failed",    EndState,    "") }

SimplifiedDescription ==
    [ Queued    |-> "queued",
      Running   |-> "running",
      Failed    |-> "failed",
      Cancelled |-> "cancelled",
      Completed |-> "completed",
      Paused    |-> "paused" ]

\* Variants of the simplified diagram with one line changed.
SimplifiedDiagram_CancelPaused ==
    [ transitions |-> SimplifiedTransitions \cup {T("Paused", "Cancelled", "Cancelled")},
      description |-> SimplifiedDescription ]

SimplifiedDiagram_NoErrorDuringStep ==
    [ transitions |->
          SimplifiedTransitions \ {T("Running", "Failed", "Error during Step")},
      description |-> SimplifiedDescription ]

SimplifiedDiagram_ResubmitCompleted ==
    [ transitions |->
          SimplifiedTransitions \cup {T("Completed", "Queued", "Resubmitted/Retried")},
      description |-> SimplifiedDescription ]

SimplifiedDiagram ==
    [ transitions |-> SimplifiedTransitions, description |-> SimplifiedDescription ]

\* The text a diagram shows for a state id: its description when one is
\* declared ("Queued:queued"), the id itself otherwise.
Description(diagram, id) ==
    IF id \in DOMAIN diagram.description THEN diagram.description[id] ELSE id

DetailedStatus(id) == Description(DetailedDiagram, id)
SimplifiedStatus(id) == Description(SimplifiedDiagram, id)

\* Transitions of a diagram that leave a state id.
Leaving(diagram, id) == { e \in diagram.transitions : e.from = id }

\* State ids one transition away from a state id.
Successors(diagram, id) == { e.to : e \in Leaving(diagram, id) }

(***************************************************************************)
(* Detailed workflow lifecycle: one action per event label                 *)
(***************************************************************************)
DetailedEvent(label) ==
    /\ \E e \in Leaving(DetailedDiagram, dstate) :
          /\ e.label = label
          /\ dstate' = e.to
    /\ dprev' = dstate
    /\ devent' = label
    /\ UNCHANGED <<svars, nvars, evars>>

D_WorkflowSubmitted == DetailedEvent("Workflow Submitted")
D_StartedFirstStep == DetailedEvent("Started First Step")
D_ProblemStartingFirstStep == DetailedEvent("Problem starting First Step")
D_SucceededNonTerminalStep == DetailedEvent("Succeeded Non-Terminal Step")
D_StartedNextStep == DetailedEvent("Started Next Step")
D_CancelledByUser == DetailedEvent("Cancelled by User")
D_SucceededFinalStep == DetailedEvent("Succeeded Final Step")
D_ResumedByUser == DetailedEvent("Resumed by User")
D_PausedByUser == DetailedEvent("Paused by User")
D_RetryingStep == DetailedEvent("Retrying Step")
D_ResubmittedByUser == DetailedEvent("Resubmitted by User")

(***************************************************************************)
(* Simplified workflow lifecycle: one action per event label               *)
(***************************************************************************)
SimplifiedEvent(label) ==
    /\ \E e \in Leaving(SimplifiedDiagram, sstate) :
          /\ e.label = label
          /\ sstate' = e.to
    /\ sprev' = sstate
    /\ sevent' = label
    /\ UNCHANGED <<dvars, nvars, evars>>

S_WorkflowSubmitted == SimplifiedEvent("Workflow Submitted")
S_StartStep == SimplifiedEvent("Start Step")
S_ErrorStartingStep == SimplifiedEvent("Error starting Step")
S_Cancelled == SimplifiedEvent("Cancelled")
S_SucceededFinalStep == SimplifiedEvent("Succeeded Final Step")
S_ErrorDuringStep == SimplifiedEvent("Error during Step")
S_Resumed == SimplifiedEvent("Resumed")
S_Paused == SimplifiedEvent("Paused")
S_ResubmittedRetried == SimplifiedEvent("Resubmitted/Retried")
S_End == SimplifiedEvent("")

(***************************************************************************)
(* ExampleNodeWithAction                                                   *)
(***************************************************************************)
Arg1Values == {"Hello", ""}
Arg2Values == (0 - MaxArg)..MaxArg

NoRequest == [arg1 |-> "none", arg2 |-> 0]
NoResult == [type |-> "none", errors |-> <<>>]

ActionFailed(errors) == [type |-> "ActionFailed", errors |-> errors]
ActionSucceeded == [type |-> "ActionSucceeded", errors |-> <<>>]

\* example_action with the comparison off by one.
example_action_ZeroFails(arg1, arg2) ==
    IF arg2 <= 0
    THEN ActionFailed(<<"arg2 must be non-negative">>)
    ELSE ActionSucceeded

\* The value example_action returns.
example_action(arg1, arg2) ==
    IF arg2 < 0
    THEN ActionFailed(<<"arg2 must be non-negative">>)
    ELSE ActionSucceeded

\* One call of example_action: log the arguments, return the result.
send_action ==
    /\ Len(log) < MaxLog
    /\ \E arg1 \in Arg1Values, arg2 \in Arg2Values :
          /\ log' = Append(log, <<arg1, arg2>>)
          /\ request' = [arg1 |-> arg1, arg2 |-> arg2]
          /\ result' = example_action(arg1, arg2)
    /\ UNCHANGED <<dvars, svars, evars>>

(***************************************************************************)
(* Experiment notebook: the cell that sets up resources and runs           *)
(* workflow_2.  Every client call either returns or raises; where the      *)
(* cell has no handler a raised exception ends the cell.                   *)
(***************************************************************************)
LOCATION_1 == "01JR8F3KF3BPZG1BEDK9DKXNWH"
LOCATION_2 == "01JR8F3KN3MA49C0HW0H727STM"
ResourceIds == {LOCATION_1, LOCATION_2}

NoAsset == "none"
MyAsset == "my_asset"
OldAsset == "old_asset"

\* What a resource may hold before the cell runs.
OldContents == { [i \in 1..n |-> OldAsset] : n \in 0..MaxOld }

Call(name, target, outcome) ==
    [name |-> name, target |-> target, outcome |-> outcome, inside |-> inExperiment]

\* "except Exception: pass" leaves the try statement normally.
ExceptPass_Propagates(following) == "aborted"

ExceptPass(following) == following

\* asset = resource_client.add_resource(Asset(...))
add_resource ==
    /\ pc = "add_resource"
    /\ \/ /\ asset' = MyAsset
          /\ calls' = Append(calls, Call("add_resource", MyAsset, "returned"))
          /\ pc' = "pop_location_1"
       \/ /\ UNCHANGED asset
          /\ calls' = Append(calls, Call("add_resource", MyAsset, "raised"))
          /\ pc' = "aborted"
    /\ UNCHANGED <<resources, inExperiment, dvars, svars, nvars>>

\* try: resource_client.pop(id) / except Exception: pass
TryPop(id, following) ==
    /\ \/ /\ resources[id] # <<>>
          /\ resources' = [resources EXCEPT
                             ![id] = SubSeq(resources[id], 1, Len(resources[id]) - 1)]
          /\ calls' = Append(calls, Call("pop", id, "returned"))
          /\ pc' = following
       \/ /\ UNCHANGED resources
          /\ calls' = Append(calls, Call("pop", id, "raised"))
          /\ pc' = ExceptPass(following)
    /\ UNCHANGED <<asset, inExperiment, dvars, svars, nvars>>

pop_location_1 ==
    /\ pc = "pop_location_1"
    /\ TryPop(LOCATION_1, "push")

\* resource_client.push(LOCATION_1, asset)
push ==
    /\ pc = "push"
    /\ \/ /\ resources' = [resources EXCEPT
                             ![LOCATION_1] = Append(resources[LOCATION_1], asset)]
          /\ calls' = Append(calls, Call("push", LOCATION_1, "returned"))
          /\ pc' = "pop_location_2"
       \/ /\ UNCHANGED resources
          /\ calls' = Append(calls, Call("push", LOCATION_1, "raised"))
          /\ pc' = "aborted"
    /\ UNCHANGED <<asset, inExperiment, dvars, svars, nvars>>

pop_location_2 ==
    /\ pc = "pop_location_2"
    /\ TryPop(LOCATION_2, "manage_experiment")

\* with experiment_application.manage_experiment(...): entering the block
manage_experiment ==
    /\ pc = "manage_experiment"
    /\ \/ /\ inExperiment' = TRUE
          /\ calls' = Append(calls, Call("manage_experiment", "enter", "returned"))
          /\ pc' = "start_workflow"
       \/ /\ UNCHANGED inExperiment
          /\ calls' = Append(calls, Call("manage_experiment", "enter", "raised"))
          /\ pc' = "aborted"
    /\ UNCHANGED <<asset, resources, dvars, svars, nvars>>

\* workcell_client.start_workflow(workflow_2), then leaving the block
start_workflow ==
    /\ pc = "start_workflow"
    /\ \/ /\ calls' = Append(calls, Call("start_workflow", "workflow_2", "returned"))
          /\ pc' = "done"
       \/ /\ calls' = Append(calls, Call("start_workflow", "workflow_2", "raised"))
          /\ pc' = "aborted"
    /\ inExperiment' = FALSE
    /\ UNCHANGED <<asset, resources, dvars, svars, nvars>>

(***************************************************************************)
(* Specifications                                                          *)
(***************************************************************************)
InitWorkflows ==
    /\ dstate = StartState
    /\ dprev = NoState
    /\ devent = NoEvent
    /\ sstate = StartState
    /\ sprev = NoState
    /\ sevent = NoEvent

InitNode ==
    /\ request = NoRequest
    /\ result = NoResult
    /\ log = <<>>

InitExperiment ==
    /\ pc = "add_resource"
    /\ asset = NoAsset
    /\ resources \in [ResourceIds -> OldContents]
    /\ inExperiment = FALSE
    /\ calls = <<>>

Init == InitWorkflows /\ InitNode /\ InitExperiment

Next ==
    \/ D_WorkflowSubmitted
    \/ D_StartedFirstStep
    \/ D_ProblemStartingFirstStep
    \/ D_SucceededNonTerminalStep
    \/ D_StartedNextStep
    \/ D_CancelledByUser
    \/ D_SucceededFinalStep
    \/ D_ResumedByUser
    \/ D_PausedByUser
    \/ D_RetryingStep
    \/ D_ResubmittedByUser
    \/ S_WorkflowSubmitted
    \/ S_StartStep
    \/ S_ErrorStartingStep
    \/ S_Cancelled
    \/ S_SucceededFinalStep
    \/ S_ErrorDuringStep
    \/ S_Resumed
    \/ S_Paused
    \/ S_ResubmittedRetried
    \/ S_End

Spec == Init /\ [][Next]_vars

NextNode == send_action

SpecNode == Init /\ [][NextNode]_vars

NextExperiment ==
    \/ add_resource
    \/ pop_location_1
    \/ push
    \/ pop_location_2
    \/ manage_experiment
    \/ start_workflow

SpecExperiment == Init /\ [][NextExperiment]_vars

(***************************************************************************)
(* Properties of the workflow lifecycle diagrams                           *)
(***************************************************************************)
WorkflowStatuses ==
    {"queued", "running", "in_progress", "paused", "failed", "cancelled", "completed"}

Cancellable == {"queued", "running", "in_progress"}

\* in_progress identified with running
Identify(status) == IF status = "in_progress" THEN "running" ELSE status

\* The status-to-status transitions of a diagram, in_progress identified
\* with running; the transitions between running and in_progress become
\* steps that leave the status unchanged and are left out.
StatusTransitions(diagram) ==
    { t \in { <<Identify(Description(diagram, e.from)),
                Identify(Description(diagram, e.to))>> :
                  e \in { x \in diagram.transitions :
                            x.from # StartState /\ x.to # EndState } } :
        t[1] # t[2] }

\* C1: the detailed and the simplified diagram allow the same
\* status-to-status transitions once in_progress is identified with running:
\* from the status either workflow is in, both diagrams allow the same set
\* of transitions.
C1_DiagramsAllowSameTransitions ==
    \A a \in {Identify(DetailedStatus(dstate)), SimplifiedStatus(sstate)} :
        { t \in StatusTransitions(DetailedDiagram) : t[1] = a }
            = { t \in StatusTransitions(SimplifiedDiagram) : t[1] = a }

\* C2: in the detailed lifecycle a submitted workflow's status is always one
\* of queued, running, in_progress, paused, failed, cancelled, completed.
C2_StatusIsOneOfSeven ==
    dstate # StartState => DetailedStatus(dstate) \in WorkflowStatuses

C2_Witness ==
    /\ DetailedStatus(dstate) = "in_progress"
    /\ devent = "Retrying Step"

\* C3: the first status of a workflow is queued, entered by 'Workflow
\* Submitted' and by nothing else, and 'Resubmitted by User' is possible
\* from failed, cancelled and completed and always leads to queued.
C3_EntryAndResubmitLeadToQueued ==
    /\ dstate = StartState =>
          { e.label : e \in Leaving(DetailedDiagram, dstate) } = {"Workflow Submitted"}
    /\ sstate = StartState =>
          { e.label : e \in Leaving(SimplifiedDiagram, sstate) } = {"Workflow Submitted"}
    /\ dprev = StartState =>
          DetailedStatus(dstate) = "queued" /\ devent = "Workflow Submitted"
    /\ sprev = StartState =>
          SimplifiedStatus(sstate) = "queued" /\ sevent = "Workflow Submitted"
    /\ DetailedStatus(dstate) \in {"failed", "cancelled", "completed"} =>
          ENABLED D_ResubmittedByUser
    /\ devent = "Resubmitted by User" =>
          /\ DetailedStatus(dprev) \in {"failed", "cancelled", "completed"}
          /\ DetailedStatus(dstate) = "queued"

C3_Witness ==
    /\ devent = "Resubmitted by User"
    /\ DetailedStatus(dprev) = "completed"
    /\ DetailedStatus(dstate) = "queued"
    /\ sprev = StartState

\* C4: in both diagrams a workflow whose status became completed was
\* running immediately before.
C4_CompletedOnlyFromRunning ==
    /\ DetailedStatus(dstate) = "completed" =>
          DetailedStatus(dprev) = "running" /\ devent = "Succeeded Final Step"
    /\ SimplifiedStatus(sstate) = "completed" =>
          SimplifiedStatus(sprev) = "running" /\ sevent = "Succeeded Final Step"

C4_Witness ==
    /\ DetailedStatus(dstate) = "completed"
    /\ SimplifiedStatus(sstate) = "completed"

\* C5: paused is entered only from queued, running or in_progress, by a
\* pause, and left only by a resume, to running or queued.
C5_PauseResumeOrdering ==
    /\ DetailedStatus(dstate) = "paused" =>
          /\ DetailedStatus(dprev) \in {"queued", "running", "in_progress"}
          /\ devent = "Paused by User"
    /\ DetailedStatus(dprev) = "paused" =>
          /\ DetailedStatus(dstate) \in {"running", "queued"}
          /\ devent = "Resumed by User"
    /\ SimplifiedStatus(sstate) = "paused" =>
          /\ SimplifiedStatus(sprev) \in {"queued", "running", "in_progress"}
          /\ sevent = "Paused"
    /\ SimplifiedStatus(sprev) = "paused" =>
          /\ SimplifiedStatus(sstate) \in {"running", "queued"}
          /\ sevent = "Resumed"

C5_Witness ==
    /\ DetailedStatus(dprev) = "paused"
    /\ DetailedStatus(dstate) = "queued"
    /\ SimplifiedStatus(sprev) = "paused"
    /\ SimplifiedStatus(sstate) = "running"

\* C6: the user can cancel a workflow exactly when it is queued, running or
\* in_progress, and a cancelled workflow was one of those immediately
\* before.
C6_CancelOnlyWhenActive ==
    /\ (ENABLED D_CancelledByUser) <=> DetailedStatus(dstate) \in Cancellable
    /\ (\E e \in Leaving(DetailedDiagram, dstate) : DetailedStatus(e.to) = "cancelled")
          <=> DetailedStatus(dstate) \in Cancellable
    /\ DetailedStatus(dstate) = "cancelled" =>
          /\ DetailedStatus(dprev) \in Cancellable
          /\ devent = "Cancelled by User"
    /\ (ENABLED S_Cancelled) <=> SimplifiedStatus(sstate) \in Cancellable
    /\ (\E e \in Leaving(SimplifiedDiagram, sstate) : SimplifiedStatus(e.to) = "cancelled")
          <=> SimplifiedStatus(sstate) \in Cancellable
    /\ SimplifiedStatus(sstate) = "cancelled" =>
          /\ SimplifiedStatus(sprev) \in Cancellable
          /\ sevent = "Cancelled"

C6_Witness ==
    /\ DetailedStatus(dstate) = "cancelled"
    /\ DetailedStatus(dprev) = "in_progress"
    /\ SimplifiedStatus(sstate) = "cancelled"

C8_RetryOrResubmitAfterFailedOrCancelled ==
    /\ DetailedStatus(dstate) \in {"failed", "cancelled"} =>
          { DetailedStatus(id) : id \in Successors(DetailedDiagram, dstate) }
              = {"in_progress", "queued"}
    /\ DetailedStatus(dprev) \in {"failed", "cancelled"} =>
          \/ DetailedStatus(dstate) = "in_progress" /\ devent = "Retrying Step"
          \/ DetailedStatus(dstate) = "queued" /\ devent = "Resubmitted by User"

C8_Witness ==
    /\ DetailedStatus(dprev) = "cancelled"
    /\ DetailedStatus(dstate) = "in_progress"

\* C9: in the simplified diagram completed can only end, the end is final,
\* and failed and cancelled can only go to queued, by 'Resubmitted/Retried',
\* or end.
C9_CompletedIsFinal ==
    /\ SimplifiedStatus(sstate) = "completed" =>
          Successors(SimplifiedDiagram, sstate) = {EndState}
    /\ SimplifiedStatus(sprev) = "completed" => sstate = EndState
    /\ sstate = EndState => Leaving(SimplifiedDiagram, sstate) = {}
    /\ SimplifiedStatus(sprev) \in {"failed", "cancelled"} =>
          \/ sstate = EndState
          \/ SimplifiedStatus(sstate) = "queued" /\ sevent = "Resubmitted/Retried"

C9_Witness ==
    /\ SimplifiedStatus(sprev) = "completed"
    /\ sstate = EndState

(***************************************************************************)
(* Properties of example_action                                            *)
(***************************************************************************)
\* C10: example_action returns ActionFailed with the error 'arg2 must be
\* non-negative' exactly when arg2 < 0, ActionSucceeded for every arg2 >= 0,
\* and the same result whatever arg1 is.
C10_FailedIffNegative ==
    request # NoRequest =>
        /\ (result = ActionFailed(<<"arg2 must be non-negative">>)) <=> request.arg2 < 0
        /\ request.arg2 >= 0 => result = ActionSucceeded
        /\ result.type \in {"ActionFailed", "ActionSucceeded"}
        /\ \A a \in Arg1Values : example_action(a, request.arg2) = result

C10_Witness ==
    /\ Len(log) = 2
    /\ log[1][2] < 0
    /\ request.arg2 = 0
    /\ result = ActionSucceeded

(***************************************************************************)
(* Properties of the experiment notebook's resource setup                  *)
(***************************************************************************)
CallNames == [i \in DOMAIN calls |-> calls[i].name]

\* C11: an exception raised by either resource_client.pop call is swallowed:
\* whether a pop returned or raised, the cell goes on with the statement
\* that follows it (the push to location_1 after the first pop, the
\* manage_experiment block after the second), the cell is never ended by a
\* pop, start_workflow(workflow_2) runs inside manage_experiment after the
\* push of the asset to location_1, and a cell that ran to its end made all
\* the calls in order.
C11_PopExceptionsSwallowed ==
    LET n == Len(calls) IN
    /\ pc = "aborted" => calls[n].outcome = "raised" /\ calls[n].name # "pop"
    /\ \A i \in 1..n : calls[i].name = "pop" =>
          /\ calls[i].outcome \in {"returned", "raised"}
          /\ IF calls[i].target = LOCATION_1
             THEN /\ i = n => pc = "push"
                  /\ i < n => calls[i + 1].name = "push"
                              /\ calls[i + 1].target = LOCATION_1
             ELSE /\ calls[i].target = LOCATION_2
                  /\ i = n => pc = "manage_experiment"
                  /\ i < n => calls[i + 1].name = "manage_experiment"
    /\ \A i \in 1..n : calls[i].name = "push" /\ calls[i].outcome = "returned" =>
          resources[LOCATION_1][Len(resources[LOCATION_1])] = MyAsset
    /\ \A j \in 1..n : calls[j].name = "start_workflow" =>
          /\ calls[j].target = "workflow_2"
          /\ calls[j].inside
          /\ \E i \in 1..(j - 1) :
                /\ calls[i].name = "push"
                /\ calls[i].target = LOCATION_1
                /\ calls[i].outcome = "returned"
    /\ pc = "done" =>
          CallNames = <<"add_resource", "pop", "push", "pop",
                        "manage_experiment", "start_workflow">>

C11_Witness ==
    /\ pc = "done"
    /\ calls[2].name = "pop" /\ calls[2].outcome = "raised"
    /\ calls[4].name = "pop" /\ calls[4].outcome = "raised"
    /\ calls[6].name = "start_workflow"

====
